---- MODULE Spec2Model ----
(***************************************************************************)
(* Model of crates/wasm-build-support/src/webpack.rs: the toolchain        *)
(* presence / installation protocol (install_if_required, install) and    *)
(* the packaging pipeline (package_bin, create_js_index,                  *)
(* create_html_index).                                                     *)
(*                                                                         *)
(* Every caller runs one call at a time.  A call advances one blocking     *)
(* primitive at a time: a process spawn, the wait for a child's exit, the  *)
(* confirmation prompt, File::create, write_all, flush.  The outcome of    *)
(* each primitive is chosen by the environment.  Paths are sequences of    *)
(* components (relative paths only), file contents are sequences of the    *)
(* chunks format! concatenates.                                            *)
(***************************************************************************)
EXTENDS Integers, Sequences, FiniteSets, TLC

\* ------------------------------------------------------------------ bounds
NumCallers == 2

\* calls made in one run of the process
MaxCalls == 2

\* files that exist, with unrelated content, before the first call
MaxStale == 1

Callers == 1..NumCallers

\* ------------------------------------------------------------------ inputs
TargetNames == {"foo", "bar"}

Paths == { <<"out", "build", "placeholder">>, <<"placeholder">> }

IoErrorKinds == {"NotFound", "PermissionDenied"}

ExitCodes == {0, 1}

\* Result<bool, util::Error> of prompt_confirm
PromptOutcomes == { [ok |-> TRUE, val |-> TRUE],
                    [ok |-> TRUE, val |-> FALSE],
                    [ok |-> FALSE, val |-> FALSE] }

\* --------------------------------------------------------------- constants
YARN_MISSING == "No installation of yarn found. yarn is required to install webpack. https://yarnpkg.com/"

WEBPACK_INSTALL_PROMPT == "No installation of webpack found. Do you want to install webpack? (y/n)"

VARIABLES
    windows,      \* cfg(target_os = "windows") of the build
    fs,           \* file system: path -> content, or Absent
    pc,           \* per caller: the primitive the call is at
    op,           \* per caller: the function called
    skip_prompt,  \* per caller: argument of install_if_required
    target_name,  \* per caller: argument of package_bin
    path,         \* per caller: argument of package_bin
    e,            \* per caller: the io::Error bound by the bundler probe's Err(e)
    result,       \* per caller: what the call produced
    log,          \* per caller: primitives the call has invoked, in order
    fs0,          \* per caller: the file system when the call started
    calls,        \* calls started so far
    bundle_in,    \* per caller: what the call's bundler process read from its input
    overlapped    \* per caller: another call was active during this call

vars == <<windows, fs, pc, op, skip_prompt, target_name, path, e, result, log, fs0, calls,
          bundle_in, overlapped>>

\* ------------------------------------------------------------ platform cmds
YARN_CMD == IF windows THEN "yarn.cmd" ELSE "yarn"

WEBPACK_CMD == IF windows THEN "webpack.cmd" ELSE "webpack"

Command_new(prog) == [prog |-> prog, args |-> <<>>]

arg(cmd, a) == [cmd EXCEPT !.args = Append(@, a)]

yarn_command ==
    IF windows THEN arg(arg(Command_new("cmd"), "/k"), "yarn.cmd")
               ELSE Command_new("yarn")

\* webpack_command that runs the batch script directly on every platform
webpack_command_direct == Command_new(WEBPACK_CMD)

webpack_command ==
    IF windows THEN arg(arg(Command_new("cmd"), "/k"), "webpack.cmd")
               ELSE Command_new("webpack")

\* ------------------------------------------------------------------ results
NoResult == [tag |-> "None"]

Ok(v) == [tag |-> "Ok", val |-> v]

Err(variant, cause) == [tag |-> "Err", variant |-> variant, cause |-> cause]

Panic(msg) == [tag |-> "Panic", msg |-> msg]

Unit == <<>>

\* Result::unwrap: the Ok value, or a panic naming the error
unwrap(r) == IF r.tag = "Ok" THEN r ELSE Panic(<<"unwrap", r.variant>>)

\* -------------------------------------------------------------------- paths
Front(s) == SubSeq(s, 1, Len(s) - 1)

\* Path::with_file_name: drop the file name if there is one, push the new one
\* (pushing "" leaves the directory itself)
with_file_name(p, name) ==
    LET base == IF Len(p) > 0 THEN Front(p) ELSE p
    IN  IF name = "" THEN base ELSE Append(base, name)

\* Path::parent: None for the empty path
parent(p) == IF Len(p) = 0 THEN [some |-> FALSE, val |-> <<>>]
                           ELSE [some |-> TRUE, val |-> Front(p)]

\* [dir, Path::new(name)].iter().collect()
join(dir, name) == Append(dir, name)

\* -------------------------------------------------------------- file system
Absent == <<"<absent>">>

\* js_content that imports a fixed module whatever the target is
js_content_fixed_name(t) == <<"void async function () { const js = await import(\"./", "foo", "\"); js.web_main() }();">>

js_content(t) == <<"void async function () { const js = await import(\"./", t, "\"); js.web_main() }();">>

html_content(t) == <<"<html><head><meta/></head><body><script src='./", t, ".js'></script></body></html>">>

build_dir(p) == with_file_name(p, "")

js_path(p) == join(build_dir(p), "index.js")

out_dir(p) == parent(build_dir(p)).val

\* out_file placed next to index.js instead of one directory up
out_file_in_build_dir(t, p) == join(build_dir(p), t \o ".js")

out_file(t, p) == join(out_dir(p), t \o ".js")

html_path(t, p) == join(out_dir(p), t \o ".html")

Files == { js_path(p) : p \in Paths }
         \cup { html_path(t, p) : t \in TargetNames, p \in { q \in Paths : parent(build_dir(q)).some } }

\* the bundler process has not read its input
NotRead == <<"<unread>">>

\* what an unrelated file holds; longer than either template
Stale == <<"stale", "stale", "stale", "stale">>

\* what a failed write_all can leave behind: any proper prefix of the content
ProperPrefixes(c) == { SubSeq(c, 1, n) : n \in 0..(Len(c) - 1) }

\* ------------------------------------------------------------ environment
SpawnOutcomes == { [ok |-> TRUE, kind |-> "none"] }
                 \cup { [ok |-> FALSE, kind |-> k] : k \in IoErrorKinds }

IoOutcomes == SpawnOutcomes

\* ------------------------------------------------------------------- steps
\* a log entry for a spawn attempt: the call site, the command, the OS outcome
Spawn(site, cmd, o) == [ev |-> "spawn", site |-> site, cmd |-> cmd, res |-> o.kind]

\* a log entry for a child's exit
Exit(site, code) == [ev |-> "exit", site |-> site, code |-> code]

\* a log entry for a file primitive
FileOp(ev, f, o) == [ev |-> ev, file |-> f, res |-> o.kind]

Event(ev, what) == [ev |-> ev, what |-> what]

\* where a match arm leaves the call: at the next primitive, or finished
Continue(next) == [done |-> FALSE, next |-> next, r |-> NoResult]

Return(r) == [done |-> TRUE, next |-> "", r |-> r]

\* a panic ends the whole process: nothing runs afterwards
Alive == \A j \in Callers : pc[j] # "panicked"

\* entering "prompt" is the call of prompt_confirm
Do(i, d, events) ==
    /\ pc' = [pc EXCEPT ![i] = IF ~d.done THEN d.next
                                ELSE IF d.r.tag = "Panic" THEN "panicked" ELSE "returned"]
    /\ log' = [log EXCEPT ![i] = @ \o events \o
                 (IF ~d.done /\ d.next = "prompt"
                  THEN <<Event("prompt", WEBPACK_INSTALL_PROMPT)>> ELSE <<>>)]
    /\ result' = [result EXCEPT ![i] = d.r]

Init ==
    /\ windows \in BOOLEAN
    /\ \E S \in SUBSET Files :
         /\ Cardinality(S) <= MaxStale
         /\ fs = [f \in Files |-> IF f \in S THEN Stale ELSE Absent]
    /\ pc = [i \in Callers |-> "idle"]
    /\ op = [i \in Callers |-> "none"]
    /\ skip_prompt = [i \in Callers |-> FALSE]
    /\ target_name = [i \in Callers |-> ""]
    /\ path = [i \in Callers |-> <<>>]
    /\ e = [i \in Callers |-> "none"]
    /\ result = [i \in Callers |-> NoResult]
    /\ log = [i \in Callers |-> <<>>]
    /\ fs0 = [i \in Callers |-> [f \in Files |-> Absent]]
    /\ calls = 0
    /\ bundle_in = [i \in Callers |-> NotRead]
    /\ overlapped = [i \in Callers |-> FALSE]

\* ---------------------------------------------------- install_if_required
\* the caller enters install_if_required(skip)
CallInstallIfRequired(i, skip) ==
    /\ Alive
    /\ \A j \in Callers : pc[j] = "idle"
    /\ calls < MaxCalls
    /\ calls' = calls + 1
    /\ op' = [op EXCEPT ![i] = "install_if_required"]
    /\ skip_prompt' = [skip_prompt EXCEPT ![i] = skip]
    /\ fs0' = [fs0 EXCEPT ![i] = fs]
    /\ Do(i, Continue("yarn_probe"), <<>>)
    /\ UNCHANGED <<windows, fs, target_name, path, e, bundle_in, overlapped>>

\* yarn_match with the absent package manager returned as an error value
yarn_match_missing_returned(o) ==
    IF ~o.ok
    THEN IF o.kind = "NotFound"
         THEN Return(Err("YarnMissing", "none"))
         ELSE Return(Err("YarnCommandError", o.kind))
    ELSE Continue("yarn_wait")

\* match yarn { Err(e) => match e.kind() { NotFound => panic!, _ => return Err }, _ => {} }
yarn_match(o) ==
    IF ~o.ok
    THEN IF o.kind = "NotFound"
         THEN Return(Panic(YARN_MISSING))
         ELSE Return(Err("YarnCommandError", o.kind))
    ELSE Continue("yarn_wait")

\* Command::new(YARN_CMD).arg("-v").output(): the spawn
YarnProbeSpawn(i) ==
    /\ Alive
    /\ pc[i] = "yarn_probe"
    /\ \E o \in SpawnOutcomes :
         Do(i, yarn_match(o), <<Spawn("yarn_probe", arg(Command_new(YARN_CMD), "-v"), o)>>)
    /\ UNCHANGED <<windows, fs, op, skip_prompt, target_name, path, e, fs0, calls, bundle_in, overlapped>>

\* the Ok(_) arm of match yarn: the exit status is not looked at
yarn_exit_match(code) == Continue("webpack_probe")

\* the probed package manager exits
YarnProbeExit(i) ==
    /\ Alive
    /\ pc[i] = "yarn_wait"
    /\ \E code \in ExitCodes : Do(i, yarn_exit_match(code), <<Exit("yarn_probe", code)>>)
    /\ UNCHANGED <<windows, fs, op, skip_prompt, target_name, path, e, fs0, calls, bundle_in, overlapped>>

\* webpack_match that asks even when skip_prompt is set
webpack_match_always_prompt(o, skip) ==
    IF ~o.ok
    THEN IF o.kind = "NotFound"
         THEN Continue("prompt")
         ELSE Return(Err("WebpackCommandError", o.kind))
    ELSE Continue("webpack_wait")

\* webpack_match that takes every spawn error for a missing bundler
webpack_match_any_error_absent(o, skip) ==
    IF ~o.ok
    THEN IF skip THEN Continue("install_spawn") ELSE Continue("prompt")
    ELSE Continue("webpack_wait")

\* match Command::new(WEBPACK_CMD)...output() { Err(e) => ..., _ => Ok(()) },
\* up to the call of prompt_confirm
webpack_match(o, skip) ==
    IF ~o.ok
    THEN IF o.kind = "NotFound"
         THEN IF skip THEN Continue("install_spawn") ELSE Continue("prompt")
         ELSE Return(Err("WebpackCommandError", o.kind))
    ELSE Continue("webpack_wait")

\* Command::new(WEBPACK_CMD).arg("-v").output(): the spawn
WebpackProbeSpawn(i) ==
    /\ Alive
    /\ pc[i] = "webpack_probe"
    /\ \E o \in SpawnOutcomes :
         /\ e' = [e EXCEPT ![i] = o.kind]
         /\ Do(i, webpack_match(o, skip_prompt[i]),
               <<Spawn("webpack_probe", arg(Command_new(WEBPACK_CMD), "-v"), o)>>)
    /\ UNCHANGED <<windows, fs, op, skip_prompt, target_name, path, fs0, calls, bundle_in, overlapped>>

\* webpack_exit_match that takes a failing probe for a missing bundler
webpack_exit_match_checks_status(code) ==
    IF code = 0 THEN Return(Ok(Unit)) ELSE Continue("install_spawn")

\* the _ => Ok(()) arm of the bundler probe: the exit status is not looked at
webpack_exit_match(code) == Return(Ok(Unit))

\* the probed bundler exits
WebpackProbeExit(i) ==
    /\ Alive
    /\ pc[i] = "webpack_wait"
    /\ \E code \in ExitCodes : Do(i, webpack_exit_match(code), <<Exit("webpack_probe", code)>>)
    /\ UNCHANGED <<windows, fs, op, skip_prompt, target_name, path, e, fs0, calls, bundle_in, overlapped>>

\* prompt_match that takes a failed prompt for a yes
prompt_match_failure_installs(a, err) ==
    IF ~a.ok
    THEN Continue("install_spawn")
    ELSE IF a.val
         THEN Continue("install_spawn")
         ELSE Return(Err("WebpackCommandError", err))

\* prompt_match that asks again after a "no"
prompt_match_asks_again(a, err) ==
    IF ~a.ok
    THEN Return(Err("PromptError", "util"))
    ELSE IF a.val
         THEN Continue("install_spawn")
         ELSE Continue("prompt")

\* prompt_confirm(..).map_err(Error::PromptError)? as the condition of the if
prompt_match(a, err) ==
    IF ~a.ok
    THEN Return(Err("PromptError", "util"))
    ELSE IF a.val
         THEN Continue("install_spawn")
         ELSE Return(Err("WebpackCommandError", err))

\* prompt_confirm(WEBPACK_INSTALL_PROMPT) returns
PromptReturn(i) ==
    /\ Alive
    /\ pc[i] = "prompt"
    /\ \E a \in PromptOutcomes : Do(i, prompt_match(a, e[i]), <<Event("prompt_return", a)>>)
    /\ UNCHANGED <<windows, fs, op, skip_prompt, target_name, path, e, fs0, calls, bundle_in, overlapped>>

\* fn install: the Result for a spawn outcome and, if spawned, an exit code
install(o, code) ==
    IF o.ok
    THEN IF code = 0 THEN Ok(Unit) ELSE Err("InstallFailed", "none")
    ELSE Err("InstallCommandError", o.kind)

\* install().unwrap(); Ok(())
install_unwrap(r) ==
    LET u == unwrap(r) IN IF u.tag = "Panic" THEN Return(u) ELSE Return(Ok(Unit))

\* the command line of install()
install_command == arg(arg(arg(arg(yarn_command, "global"), "add"), "webpack"), "webpack-cli")

\* install(): the spawn
InstallSpawn(i) ==
    /\ Alive
    /\ pc[i] = "install_spawn"
    /\ \E o \in SpawnOutcomes :
         Do(i, IF o.ok THEN Continue("install_wait") ELSE install_unwrap(install(o, 0)),
            <<Spawn("install", install_command, o)>>)
    /\ UNCHANGED <<windows, fs, op, skip_prompt, target_name, path, e, fs0, calls, bundle_in, overlapped>>

\* install(): the install process exits; stderr is printed on failure
InstallExit(i) ==
    /\ Alive
    /\ pc[i] = "install_wait"
    /\ \E code \in ExitCodes :
         LET r == install([ok |-> TRUE, kind |-> "none"], code)
         IN  Do(i, install_unwrap(r),
                <<Exit("install", code)>>
                \o (IF r.tag = "Ok" THEN <<>> ELSE <<Event("println", "stderr")>>))
    /\ UNCHANGED <<windows, fs, op, skip_prompt, target_name, path, e, fs0, calls, bundle_in, overlapped>>

\* ------------------------------------------------------------ package_bin
\* the caller enters package_bin(t, p); create_js_index is entered first
CallPackageBin(i, t, p) ==
    /\ Alive
    /\ \A j \in Callers : pc[j] = "idle"
    /\ calls < MaxCalls
    /\ calls' = calls + 1
    /\ op' = [op EXCEPT ![i] = "package_bin"]
    /\ target_name' = [target_name EXCEPT ![i] = t]
    /\ path' = [path EXCEPT ![i] = p]
    /\ fs0' = [fs0 EXCEPT ![i] = fs]
    /\ Do(i, Continue("js_create"), <<>>)
    /\ UNCHANGED <<windows, fs, skip_prompt, e, bundle_in, overlapped>>

\* the variant create_js_index wraps an io::Error in
js_map_err(kind) == Err("WriteHtmlIndexError", kind)

\* html_map_err that reports a failed host-page write as a failed bundle
html_map_err_package_failed(kind) == Err("PackageFailed", "none")

\* the variant create_html_index wraps an io::Error in
html_map_err(kind) == Err("WriteHtmlIndexError", kind)

\* File_create that opens an existing file without truncating it
File_create_keeps(f, o) ==
    IF o.ok /\ fs[f] = Absent THEN [fs EXCEPT ![f] = <<>>] ELSE fs

\* File::create(f): truncates or creates f, or fails leaving it alone
File_create(f, o) == IF o.ok THEN [fs EXCEPT ![f] = <<>>] ELSE fs

\* bytes written from the start of a file replace what was there, and what
\* lies beyond them stays
Overlay(old, c) ==
    c \o (IF old = Absent THEN <<>> ELSE SubSeq(old, Len(c) + 1, Len(old)))

\* write_all(content) on a fresh handle: the whole content, or an error after
\* part of it; the file systems it can leave
write_all(f, content, o) ==
    IF o.ok THEN { [fs EXCEPT ![f] = Overlay(@, content)] }
            ELSE { [fs EXCEPT ![f] = Overlay(@, c)] : c \in ProperPrefixes(content) }

\* create_js_index: File::create(&js_path)
JsCreate(i) ==
    /\ Alive
    /\ pc[i] = "js_create"
    /\ \E o \in IoOutcomes :
         /\ fs' = File_create(js_path(path[i]), o)
         /\ Do(i, IF o.ok THEN Continue("js_write") ELSE Return(js_map_err(o.kind)),
               <<FileOp("create", js_path(path[i]), o)>>)
    /\ UNCHANGED <<windows, op, skip_prompt, target_name, path, e, fs0, calls, bundle_in, overlapped>>

\* create_js_index: js_index.write_all(content.as_bytes())
JsWrite(i) ==
    /\ Alive
    /\ pc[i] = "js_write"
    /\ \E o \in IoOutcomes :
         /\ fs' \in write_all(js_path(path[i]), js_content(target_name[i]), o)
         /\ Do(i, IF o.ok THEN Continue("js_flush") ELSE Return(js_map_err(o.kind)),
               <<FileOp("write_all", js_path(path[i]), o)>>)
    /\ UNCHANGED <<windows, op, skip_prompt, target_name, path, e, fs0, calls, bundle_in, overlapped>>

\* back in package_bin after create_js_index(..)?: build_dir.parent().unwrap()
out_dir_unwrap(p) ==
    IF parent(build_dir(p)).some
    THEN Continue("bundle_spawn")
    ELSE Return(Panic(<<"unwrap", "None">>))

\* create_js_index: js_index.flush()
JsFlush(i) ==
    /\ Alive
    /\ pc[i] = "js_flush"
    /\ \E o \in IoOutcomes :
         Do(i, IF o.ok THEN out_dir_unwrap(path[i]) ELSE Return(js_map_err(o.kind)),
            <<FileOp("flush", js_path(path[i]), o)>>)
    /\ UNCHANGED <<windows, fs, op, skip_prompt, target_name, path, e, fs0, calls, bundle_in, overlapped>>

\* the bundler's command line
bundle_command(t, p) ==
    arg(arg(arg(arg(arg(webpack_command,
        with_file_name(p, "index.js")), "--output"), out_file(t, p)), "--mode"), "development")

\* bundle_match that spawns the bundler again when the spawn failed
bundle_match_retries(o) ==
    IF o.ok THEN Continue("bundle_wait") ELSE Continue("bundle_spawn")

\* bundle_match that goes on to the host page when the spawn failed
bundle_match_goes_on(o) ==
    IF o.ok THEN Continue("bundle_wait") ELSE Continue("html_create")

\* the Err(e) arm of the bundler's match, or on to the wait
bundle_match(o) ==
    IF o.ok THEN Continue("bundle_wait") ELSE Return(Err("PackageCommandError", o.kind))

\* package_bin: webpack_command()...output(), the spawn
BundleSpawn(i) ==
    /\ Alive
    /\ pc[i] = "bundle_spawn"
    /\ \E o \in SpawnOutcomes :
         Do(i, bundle_match(o), <<Spawn("bundle", bundle_command(target_name[i], path[i]), o)>>)
    /\ UNCHANGED <<windows, fs, op, skip_prompt, target_name, path, e, fs0, calls, bundle_in, overlapped>>

\* bundle_exit_match that does not look at the exit status
bundle_exit_match_ignores_status(code) == Continue("html_create")

\* match output.status.success() { true => println!, false => return Err(PackageFailed) }
bundle_exit_match(code) ==
    IF code = 0 THEN Continue("html_create") ELSE Return(Err("PackageFailed", "none"))

\* BundleExit with a timeout: the call gives up on a bundler that has not exited
BundleExit_with_timeout(i) ==
    /\ Alive
    /\ pc[i] = "bundle_wait"
    /\ Do(i, Return(Err("PackageFailed", "none")), <<>>)
    /\ UNCHANGED <<windows, fs, op, skip_prompt, target_name, path, e, fs0, calls,
                   bundle_in, overlapped>>

\* the running bundler reads the input file named on its command line
BundlerReads(i) ==
    /\ Alive
    /\ pc[i] = "bundle_wait"
    /\ bundle_in[i] = NotRead
    /\ bundle_in' = [bundle_in EXCEPT ![i] = fs[with_file_name(path[i], "index.js")]]
    /\ UNCHANGED <<windows, fs, pc, op, skip_prompt, target_name, path, e, result, log,
                   fs0, calls, overlapped>>

\* package_bin: the bundler exits (with success only after it has read its
\* input); stdout is printed on success
BundleExit(i) ==
    /\ Alive
    /\ pc[i] = "bundle_wait"
    /\ \E code \in ExitCodes :
         /\ code = 0 => bundle_in[i] # NotRead
         /\ Do(i, bundle_exit_match(code),
            <<Exit("bundle", code)>>
            \o (IF code = 0 THEN <<Event("println", "stdout")>> ELSE <<>>))
    /\ UNCHANGED <<windows, fs, op, skip_prompt, target_name, path, e, fs0, calls, bundle_in, overlapped>>

\* create_html_index: File::create(&html_path)
HtmlCreate(i) ==
    /\ Alive
    /\ pc[i] = "html_create"
    /\ \E o \in IoOutcomes :
         /\ fs' = File_create(html_path(target_name[i], path[i]), o)
         /\ Do(i, IF o.ok THEN Continue("html_write") ELSE Return(html_map_err(o.kind)),
               <<FileOp("create", html_path(target_name[i], path[i]), o)>>)
    /\ UNCHANGED <<windows, op, skip_prompt, target_name, path, e, fs0, calls, bundle_in, overlapped>>

\* create_html_index: html_index.write_all(content.as_bytes())
HtmlWrite(i) ==
    /\ Alive
    /\ pc[i] = "html_write"
    /\ \E o \in IoOutcomes :
         /\ fs' \in write_all(html_path(target_name[i], path[i]),
                              html_content(target_name[i]), o)
         /\ Do(i, IF o.ok THEN Continue("html_flush") ELSE Return(html_map_err(o.kind)),
               <<FileOp("write_all", html_path(target_name[i], path[i]), o)>>)
    /\ UNCHANGED <<windows, op, skip_prompt, target_name, path, e, fs0, calls, bundle_in, overlapped>>

\* create_html_index: html_index.flush(), then package_bin returns Ok(out_file)
HtmlFlush(i) ==
    /\ Alive
    /\ pc[i] = "html_flush"
    /\ \E o \in IoOutcomes :
         Do(i, IF o.ok THEN Return(Ok(out_file(target_name[i], path[i])))
                       ELSE Return(html_map_err(o.kind)),
            <<FileOp("flush", html_path(target_name[i], path[i]), o)>>)
    /\ UNCHANGED <<windows, fs, op, skip_prompt, target_name, path, e, fs0, calls, bundle_in, overlapped>>

\* ------------------------------------------------------------------ caller
\* the caller takes the returned value; the call's locals are gone
CallerContinues(i) ==
    /\ Alive
    /\ pc[i] = "returned"
    /\ pc' = [pc EXCEPT ![i] = "idle"]
    /\ op' = [op EXCEPT ![i] = "none"]
    /\ skip_prompt' = [skip_prompt EXCEPT ![i] = FALSE]
    /\ target_name' = [target_name EXCEPT ![i] = ""]
    /\ path' = [path EXCEPT ![i] = <<>>]
    /\ e' = [e EXCEPT ![i] = "none"]
    /\ result' = [result EXCEPT ![i] = NoResult]
    /\ log' = [log EXCEPT ![i] = <<>>]
    /\ fs0' = [fs0 EXCEPT ![i] = [f \in Files |-> Absent]]
    /\ bundle_in' = [bundle_in EXCEPT ![i] = NotRead]
    /\ overlapped' = [overlapped EXCEPT ![i] = FALSE]
    /\ UNCHANGED <<windows, fs, calls>>

Next ==
    \E i \in Callers :
        \/ \E skip \in BOOLEAN : CallInstallIfRequired(i, skip)
        \/ YarnProbeSpawn(i)
        \/ YarnProbeExit(i)
        \/ WebpackProbeSpawn(i)
        \/ WebpackProbeExit(i)
        \/ PromptReturn(i)
        \/ InstallSpawn(i)
        \/ InstallExit(i)
        \/ \E t \in TargetNames, p \in Paths : CallPackageBin(i, t, p)
        \/ JsCreate(i)
        \/ JsWrite(i)
        \/ JsFlush(i)
        \/ BundleSpawn(i)
        \/ BundlerReads(i)
        \/ BundleExit(i)
        \/ HtmlCreate(i)
        \/ HtmlWrite(i)
        \/ HtmlFlush(i)
        \/ CallerContinues(i)

Spec == Init /\ [][Next]_vars

\* ---------------------------------------------------------------- progress
\* a fresh output directory
InitFresh ==
    /\ Init
    /\ \A f \in Files : fs[f] = Absent

\* one primitive of caller i's call completes
Step(i) ==
    \/ YarnProbeSpawn(i)
    \/ YarnProbeExit(i)
    \/ WebpackProbeSpawn(i)
    \/ WebpackProbeExit(i)
    \/ PromptReturn(i)
    \/ InstallSpawn(i)
    \/ InstallExit(i)
    \/ JsCreate(i)
    \/ JsWrite(i)
    \/ JsFlush(i)
    \/ BundleSpawn(i)
    \/ BundlerReads(i)
    \/ BundleExit(i)
    \/ HtmlCreate(i)
    \/ HtmlWrite(i)
    \/ HtmlFlush(i)

\* every spawn attempt and file primitive completes, every spawned child
\* exits and the prompt returns
SpecLive == InitFresh /\ [][Next]_vars /\ \A i \in Callers : WF_vars(Step(i))

\* ------------------------------------------------- overlapping invocations
\* package_bin(t, p) entered on a thread of its own, as one of a pair of
\* invocations: every earlier call is still in progress or not yet consumed,
\* and there is at most one.  The call it overlaps with is marked, and so is
\* this one
CallPackageBinConcurrently(i, t, p) ==
    /\ Alive
    /\ pc[i] = "idle"
    /\ \A j, k \in Callers \ {i} : j # k => pc[j] = "idle" \/ pc[k] = "idle"
    /\ calls = Cardinality({ j \in Callers : pc[j] # "idle" })
    /\ calls < MaxCalls
    /\ calls' = calls + 1
    /\ op' = [op EXCEPT ![i] = "package_bin"]
    /\ target_name' = [target_name EXCEPT ![i] = t]
    /\ path' = [path EXCEPT ![i] = p]
    /\ fs0' = [fs0 EXCEPT ![i] = fs]
    /\ LET running == { j \in Callers \ {i} : pc[j] \notin {"idle", "returned"} }
       IN  overlapped' = [j \in Callers |->
                            IF j = i THEN running # {}
                            ELSE overlapped[j] \/ j \in running]
    /\ Do(i, Continue("js_create"), <<>>)
    /\ UNCHANGED <<windows, fs, skip_prompt, e, bundle_in>>

\* the paths whose build directory has a directory above it, so that the
\* call gets as far as the bundler
BundlingPaths == { p \in Paths : parent(build_dir(p)).some }

NextConcurrent ==
    \E i \in Callers :
        \/ \E t \in TargetNames, p \in BundlingPaths : CallPackageBinConcurrently(i, t, p)
        \/ JsCreate(i)
        \/ JsWrite(i)
        \/ JsFlush(i)
        \/ BundleSpawn(i)
        \/ BundlerReads(i)
        \/ BundleExit(i)
        \/ HtmlCreate(i)
        \/ HtmlWrite(i)
        \/ HtmlFlush(i)
        \/ CallerContinues(i)

SpecConcurrent == InitFresh /\ [][NextConcurrent]_vars

\* ------------------------------------------------------- history queries
ErrorVariants == { "YarnMissing", "YarnCommandError", "PromptError", "WebpackMissing",
                   "WebpackCommandError", "InstallFailed", "InstallCommandError",
                   "PackageFailed", "PackageCommandError", "WriteJsIndexError",
                   "WriteHtmlIndexError" }

Done(i) == pc[i] \in {"returned", "panicked"}

\* the call tried to spawn the process of this call site
Spawned(i, site) ==
    \E k \in DOMAIN log[i] : log[i][k].ev = "spawn" /\ log[i][k].site = site

\* ... and the OS answered with this outcome ("none": it spawned)
SpawnedWith(i, site, kind) ==
    \E k \in DOMAIN log[i] :
        log[i][k].ev = "spawn" /\ log[i][k].site = site /\ log[i][k].res = kind

Exited(i, site, code) ==
    \E k \in DOMAIN log[i] :
        log[i][k].ev = "exit" /\ log[i][k].site = site /\ log[i][k].code = code

\* the child of this call site exited with a failure status
ExitedFailing(i, site) == \E c \in ExitCodes \ {0} : Exited(i, site, c)

PromptCalls(i) == Cardinality({ k \in DOMAIN log[i] : log[i][k].ev = "prompt" })

PromptReturned(i, a) ==
    \E k \in DOMAIN log[i] : log[i][k].ev = "prompt_return" /\ log[i][k].what = a

Yes == [ok |-> TRUE, val |-> TRUE]

No == [ok |-> TRUE, val |-> FALSE]

\* the call used a file primitive on f
Touched(i, f) ==
    \E k \in DOMAIN log[i] :
        log[i][k].ev \in {"create", "write_all", "flush"} /\ log[i][k].file = f

\* the call ended on a failed file primitive on f
FailedOn(i, f) ==
    /\ Len(log[i]) > 0
    /\ LET last == log[i][Len(log[i])]
       IN  last.ev \in {"create", "write_all", "flush"} /\ last.file = f /\ last.res # "none"

\* ------------------------------------------------------------------ claims

\* C1: when the package-manager probe spawns, the bundler probe fails with
\* not-found, installation is approved and the install process exits with a
\* failure status, install_if_required returns an InstallFailed error value.
C1_InstallFailureIsReturned ==
    \A i \in Callers :
        ( /\ SpawnedWith(i, "yarn_probe", "none")
          /\ SpawnedWith(i, "webpack_probe", "NotFound")
          /\ (skip_prompt[i] \/ PromptReturned(i, Yes))
          /\ ExitedFailing(i, "install") )
        => (pc[i] = "returned" /\ result[i] = Err("InstallFailed", "none"))

\* C2: the process is aborted in exactly one situation, the package-manager
\* probe failing with not-found; every other call that ends, ends by
\* returning.
C2_AbortOnlyWhenYarnMissing ==
    \A i \in Callers :
        Done(i) => (pc[i] = "panicked" <=> SpawnedWith(i, "yarn_probe", "NotFound"))

\* C3: with skip_prompt false, the bundler probe failing with not-found and
\* the prompt answering no, the call returns the bundler-missing error, not
\* the error returned for other bundler spawn failures, and install is never
\* spawned.
C3_DeclinedIsWebpackMissing ==
    \A i \in Callers :
        ( /\ ~skip_prompt[i]
          /\ SpawnedWith(i, "webpack_probe", "NotFound")
          /\ PromptReturned(i, No) )
        => /\ pc[i] = "returned"
           /\ result[i].tag = "Err"
           /\ result[i].variant = "WebpackMissing"
           /\ result[i].variant #
                webpack_match([ok |-> FALSE, kind |-> "PermissionDenied"], FALSE).r.variant
           /\ ~Spawned(i, "install")

\* C4: an I/O failure on index.js is returned as WriteJsIndexError, one on
\* <target_name>.html as WriteHtmlIndexError.
C4_WriteErrorNamesArtifact ==
    \A i \in Callers :
        (op[i] = "package_bin" /\ pc[i] = "returned") =>
            /\ FailedOn(i, js_path(path[i]))
                 => (result[i].tag = "Err" /\ result[i].variant = "WriteJsIndexError")
            /\ ( /\ parent(build_dir(path[i])).some
                 /\ FailedOn(i, html_path(target_name[i], path[i])) )
                 => (result[i].tag = "Err" /\ result[i].variant = "WriteHtmlIndexError")

\* C5: if the package-manager probe fails with not-found the process is
\* aborted with YARN_MISSING: nothing is returned, the bundler is not probed,
\* the prompt is not invoked and install is not spawned.
C5_YarnMissingAborts ==
    \A i \in Callers :
        SpawnedWith(i, "yarn_probe", "NotFound") =>
            /\ pc[i] = "panicked"
            /\ result[i] = Panic(YARN_MISSING)
            /\ ~Spawned(i, "webpack_probe")
            /\ PromptCalls(i) = 0
            /\ ~Spawned(i, "install")

C5_Witness ==
    \E i \in Callers : SpawnedWith(i, "yarn_probe", "NotFound") /\ Done(i)

\* C6: install_if_required(skip_prompt = true) never invokes the prompt,
\* whatever the probes and the install process do.
C6_SkipPromptNeverAsks ==
    \A i \in Callers :
        (op[i] = "install_if_required" /\ skip_prompt[i])
        => (PromptCalls(i) = 0 /\ pc[i] # "prompt")

C6_Witness ==
    \E i \in Callers :
        /\ skip_prompt[i]
        /\ SpawnedWith(i, "webpack_probe", "NotFound")
        /\ Exited(i, "install", 0)
        /\ pc[i] = "returned"

\* C7: install_if_required(skip_prompt = false) invokes the prompt exactly
\* once if the bundler probe failed with not-found, and not at all otherwise.
C7_PromptOnceIffBundlerAbsent ==
    \A i \in Callers :
        (op[i] = "install_if_required" /\ ~skip_prompt[i])
        => PromptCalls(i) = (IF SpawnedWith(i, "webpack_probe", "NotFound") THEN 1 ELSE 0)

C7_Witness ==
    \E i \in Callers :
        /\ op[i] = "install_if_required" /\ ~skip_prompt[i]
        /\ PromptCalls(i) = 1
        /\ PromptReturned(i, No)
        /\ pc[i] = "returned"

\* C8: when both probes spawn, whatever their exit statuses, the call returns
\* success once the bundler probe exits, without prompting or installing.
C8_BothPresentReturnsOk ==
    \A i \in Callers :
        (SpawnedWith(i, "yarn_probe", "none") /\ SpawnedWith(i, "webpack_probe", "none"))
        => /\ pc[i] = "webpack_wait" \/ (pc[i] = "returned" /\ result[i] = Ok(Unit))
           /\ (\E c \in ExitCodes : Exited(i, "webpack_probe", c)) => pc[i] = "returned"
           /\ PromptCalls(i) = 0
           /\ ~Spawned(i, "install")

C8_Witness ==
    \E i \in Callers :
        /\ Exited(i, "yarn_probe", 1)
        /\ Exited(i, "webpack_probe", 1)
        /\ pc[i] = "returned"

\* C9: a probe whose spawn fails with an OS error other than not-found makes
\* the call return that tool's command error wrapping the OS error; the prompt
\* is not invoked and install is not spawned.
C9_OtherProbeErrorIsReturned ==
    \A i \in Callers : \A kind \in IoErrorKinds \ {"NotFound"} :
        /\ SpawnedWith(i, "yarn_probe", kind) =>
              /\ pc[i] = "returned"
              /\ result[i] = Err("YarnCommandError", kind)
              /\ ~Spawned(i, "webpack_probe")
              /\ PromptCalls(i) = 0
              /\ ~Spawned(i, "install")
        /\ SpawnedWith(i, "webpack_probe", kind) =>
              /\ pc[i] = "returned"
              /\ result[i] = Err("WebpackCommandError", kind)
              /\ PromptCalls(i) = 0
              /\ ~Spawned(i, "install")

C9_Witness ==
    \E i \in Callers :
        /\ SpawnedWith(i, "yarn_probe", "none")
        /\ SpawnedWith(i, "webpack_probe", "PermissionDenied")
        /\ ~skip_prompt[i]
        /\ pc[i] = "returned"

\* C10: if the bundler exits non-zero, package_bin returns PackageFailed and
\* makes no attempt on <target_name>.html, which is as it was before the call.
C10_BundlerFailureSkipsHtml ==
    \A i \in Callers :
        (op[i] = "package_bin" /\ ExitedFailing(i, "bundle")) =>
            LET html == html_path(target_name[i], path[i])
            IN  /\ pc[i] = "returned"
                /\ result[i] = Err("PackageFailed", "none")
                /\ ~Touched(i, html)
                /\ fs[html] = fs0[i][html]

C10_Witness ==
    \E i \in Callers :
        /\ op[i] = "package_bin" /\ ExitedFailing(i, "bundle")
        /\ pc[i] = "returned"
        /\ fs0[i][html_path(target_name[i], path[i])] = html_content(target_name[i])

\* ---------------------------------------------------- more history queries
FileEvents == {"create", "write_all", "flush"}

\* every file primitive of the call so far succeeded
AllFileOpsOk(i) ==
    \A k \in DOMAIN log[i] : log[i][k].ev \in FileEvents => log[i][k].res = "none"

\* how often the call used primitive ev on file f
FileOpCount(i, ev, f) ==
    Cardinality({ k \in DOMAIN log[i] : log[i][k].ev = ev /\ log[i][k].file = f })

\* how often the call tried to spawn the process of this call site
SpawnCount(i, site) ==
    Cardinality({ k \in DOMAIN log[i] : log[i][k].ev = "spawn" /\ log[i][k].site = site })

Sites == {"yarn_probe", "webpack_probe", "install", "bundle"}

Failed == [ok |-> FALSE, val |-> FALSE]

\* <dir of path>/index.js, spelled out
IndexJsOf(p) == Append(SubSeq(p, 1, Len(p) - 1), "index.js")

\* C11: for a path out_dir/build_dir/file, when both scaffold writes succeed
\* and the bundler exits 0, package_bin returns out_dir/<target_name>.js, the
\* bundler got out_dir/build_dir/index.js as input and the returned path as
\* --output, and out_dir/<target_name>.html exists and references
\* ./<target_name>.js.
C11_SuccessfulPackaging ==
    \A i \in Callers :
        ( /\ op[i] = "package_bin"
          /\ Len(path[i]) = 3
          /\ AllFileOpsOk(i)
          /\ Cardinality({ k \in DOMAIN log[i] : log[i][k].ev = "flush" }) = 2
          /\ Exited(i, "bundle", 0) )
        => LET t == target_name[i]
               out == <<path[i][1], t \o ".js">>
               html == <<path[i][1], t \o ".html">>
           IN  /\ pc[i] = "returned"
               /\ result[i] = Ok(out)
               /\ \E k \in DOMAIN log[i] :
                    /\ log[i][k].ev = "spawn" /\ log[i][k].site = "bundle"
                    /\ LET a == log[i][k].cmd.args
                           n == Len(a)
                       IN  /\ n >= 5
                           /\ a[n - 4] = <<path[i][1], path[i][2], "index.js">>
                           /\ a[n - 3] = "--output"
                           /\ a[n - 2] = out
                           /\ a[n - 1] = "--mode"
                           /\ a[n] = "development"
               /\ fs[html] = <<"<html><head><meta/></head><body><script src='./", t,
                               ".js'></script></body></html>">>

C11_Witness ==
    \E i \in Callers :
        /\ op[i] = "package_bin" /\ Len(path[i]) = 3
        /\ pc[i] = "returned" /\ result[i].tag = "Ok"
        /\ target_name[i] = "bar"

\* C12: a scaffolder call leaves its destination with the content for its
\* target_name whatever the file held before (so a second call with the same
\* inputs leaves what the first left), and changes no other file.
C12_ScaffolderIdempotent ==
    \A i \in Callers :
        op[i] = "package_bin" =>
            LET t == target_name[i]
                js == IndexJsOf(path[i])
                html == <<path[i][1], t \o ".html">>
                jsDone == FileOpCount(i, "write_all", js) = 1 /\ AllFileOpsOk(i)
                htmlDone == Len(path[i]) = 3 /\ FileOpCount(i, "write_all", html) = 1
                            /\ AllFileOpsOk(i)
            IN  /\ jsDone => fs[js] = js_content(t)
                /\ htmlDone => fs[html] = html_content(t)
                /\ \A f \in Files \ {js} :
                      (f # html \/ ~Touched(i, f)) => fs[f] = fs0[i][f]

C12_Witness ==
    \E i \in Callers :
        /\ op[i] = "package_bin" /\ pc[i] = "returned" /\ result[i].tag = "Ok"
        /\ fs0[i][IndexJsOf(path[i])] = js_content(target_name[i])
        /\ fs0[i][html_path(target_name[i], path[i])] = html_content(target_name[i])

\* C13: with skip_prompt false and the bundler absent, a failing prompt makes
\* the call return PromptError; the prompt is not invoked again and install
\* is never spawned.
C13_PromptFailureIsReturned ==
    \A i \in Callers :
        ( /\ ~skip_prompt[i]
          /\ SpawnedWith(i, "webpack_probe", "NotFound")
          /\ PromptReturned(i, Failed) )
        => /\ pc[i] = "returned"
           /\ result[i] = Err("PromptError", "util")
           /\ PromptCalls(i) = 1
           /\ ~Spawned(i, "install")

C13_Witness ==
    \E i \in Callers : PromptReturned(i, Failed) /\ pc[i] = "returned"

\* C14: in package_bin the bundler is spawned only after index.js has been
\* created, written and flushed; a failed JS write returns an error with the
\* bundler never spawned; the host page is touched only after the bundler
\* exited with success, so neither a failing exit nor a spawn failure
\* (returned as PackageCommandError) is followed by an HTML write.
C14_StepOrder ==
    \A i \in Callers :
        op[i] = "package_bin" =>
            LET js == IndexJsOf(path[i])
                L == log[i]
            IN  /\ \A k \in DOMAIN L :
                      (L[k].ev = "spawn" /\ L[k].site = "bundle") =>
                          /\ k = 4
                          /\ L[1] = [ev |-> "create", file |-> js, res |-> "none"]
                          /\ L[2] = [ev |-> "write_all", file |-> js, res |-> "none"]
                          /\ L[3] = [ev |-> "flush", file |-> js, res |-> "none"]
                /\ pc[i] = "bundle_spawn" => fs[js] = js_content(target_name[i])
                /\ FailedOn(i, js) =>
                      pc[i] = "returned" /\ result[i].tag = "Err" /\ ~Spawned(i, "bundle")
                /\ \A k \in DOMAIN L :
                      (L[k].ev \in FileEvents /\ L[k].file # js) =>
                          \E j \in 1..(k - 1) : L[j] = Exit("bundle", 0)
                /\ \A kind \in IoErrorKinds :
                      SpawnedWith(i, "bundle", kind) =>
                          /\ pc[i] = "returned"
                          /\ result[i] = Err("PackageCommandError", kind)
                          /\ \A k \in DOMAIN L : L[k].ev \in FileEvents => L[k].file = js
                /\ ExitedFailing(i, "bundle") =>
                      \A k \in DOMAIN L : L[k].ev \in FileEvents => L[k].file = js

C14_Witness ==
    \E i \in Callers :
        /\ op[i] = "package_bin"
        /\ SpawnedWith(i, "bundle", "NotFound")
        /\ pc[i] = "returned"

\* C15: no step is retried: within one call each process is spawned at most
\* once, the prompt is invoked at most once, and each file is created,
\* written and flushed at most once.
C15_NoRetry ==
    \A i \in Callers :
        /\ \A site \in Sites : SpawnCount(i, site) <= 1
        /\ PromptCalls(i) <= 1
        /\ \A f \in Files : \A ev \in FileEvents : FileOpCount(i, ev, f) <= 1

C15_Witness ==
    \E i \in Callers :
        /\ op[i] = "package_bin"
        /\ SpawnedWith(i, "bundle", "PermissionDenied")
        /\ Done(i)

\* C18: both probes spawn the tool's bare command name with the single
\* argument -v and never the command interpreter; install and the bundle step
\* use cmd /k <batch script> on Windows and the plain executable elsewhere;
\* program and wrapper arguments are fixed constants.
C18_InvocationForms ==
    \A i \in Callers : \A k \in DOMAIN log[i] :
        log[i][k].ev = "spawn" =>
            LET c == log[i][k].cmd
                site == log[i][k].site
                tool == IF site \in {"yarn_probe", "install"} THEN "yarn" ELSE "webpack"
                script == tool \o ".cmd"
            IN  IF site \in {"yarn_probe", "webpack_probe"}
                THEN /\ c.prog = (IF windows THEN script ELSE tool)
                     /\ c.args = <<"-v">>
                ELSE IF windows
                     THEN /\ c.prog = "cmd"
                          /\ Len(c.args) >= 2
                          /\ c.args[1] = "/k"
                          /\ c.args[2] = script
                     ELSE c.prog = tool

C18_Witness ==
    \E i \in Callers : windows /\ Spawned(i, "bundle") /\ pc[i] = "bundle_wait"

\* C19: when package_bin returns PackageFailed or PackageCommandError, the
\* index.js it wrote for target_name is still there with that content, and
\* the call has written no other file.
C19_FailedBundleFrame ==
    \A i \in Callers :
        ( /\ op[i] = "package_bin"
          /\ pc[i] = "returned"
          /\ result[i].tag = "Err"
          /\ result[i].variant \in {"PackageFailed", "PackageCommandError"} )
        => LET js == IndexJsOf(path[i])
           IN  /\ fs[js] = js_content(target_name[i])
               /\ \A f \in Files \ {js} : fs[f] = fs0[i][f]
               /\ \A k \in DOMAIN log[i] :
                     log[i][k].ev \in FileEvents => log[i][k].file = js

C19_Witness ==
    \E i \in Callers :
        /\ op[i] = "package_bin" /\ pc[i] = "returned"
        /\ result[i] = Err("PackageCommandError", "NotFound")
        /\ fs0[i][IndexJsOf(path[i])] = Stale

\* C16: two package_bin invocations sharing a build directory are not
\* isolated: run one after the other, each invocation's bundler reads the
\* index.js naming its own target; interleaved (the witness), one
\* invocation's bundler reads the index.js the other wrote and that
\* invocation still returns its own bundle path.
C16_SequentialReadsOwnIndex ==
    \A i \in Callers :
        (op[i] = "package_bin" /\ bundle_in[i] # NotRead /\ ~overlapped[i])
        => /\ Len(bundle_in[i]) = 3
           /\ bundle_in[i][2] = target_name[i]

C16_Witness ==
    \E i, j \in Callers :
        /\ i # j
        /\ op[i] = "package_bin" /\ op[j] = "package_bin"
        /\ path[i] = path[j]
        /\ target_name[i] # target_name[j]
        /\ bundle_in[i] = js_content(target_name[j])
        /\ pc[i] = "returned"
        /\ result[i] = Ok(<<path[i][1], target_name[i] \o ".js">>)

\* the call is inside one of the two functions
InCall(i) == pc[i] \notin {"idle", "returned", "panicked"}

WaitPcs == {"yarn_wait", "webpack_wait", "install_wait", "bundle_wait"}

\* C17: if every spawned child eventually exits (or fails to spawn) and the
\* prompt eventually returns, every call eventually returns or aborts; and a
\* call waiting for a child leaves that step only by the child's exit: there
\* is no timeout or cancellation.
C17_EndsIfChildrenExit ==
    /\ \A i \in Callers : InCall(i) ~> Done(i)
    /\ [][ \A i \in Callers :
             (pc[i] \in WaitPcs /\ pc'[i] # pc[i]) =>
                 /\ Len(log'[i]) > Len(log[i])
                 /\ log'[i][Len(log[i]) + 1].ev = "exit" ]_vars

C17_Witness ==
    \E i \in Callers : pc[i] = "install_wait" /\ ~skip_prompt[i]

====
